---- MODULE Spec2Model ----
(***************************************************************************)
(* Model of the uterm host bridge (src/utermhost/host.py): SLIP framing,   *)
(* the request/response protocol, the serve loop, the PTY readiness        *)
(* handler and the SIGINT / SIGALRM handlers.                              *)
(*                                                                         *)
(* Control is a stack of frames: stack[1] is the main thread inside        *)
(* serve(); a delivered signal pushes a handler frame, and only the top    *)
(* frame runs (Python runs signal handlers in the main thread, between     *)
(* statements of the interrupted code).                                    *)
(***************************************************************************)
EXTENDS Integers, Sequences, FiniteSets, TLC

\* ---------------------------------------------------------------- bounds
MaxLen == 3            \* longest byte string given to the SLIP round trip
MaxPtyReads == 2       \* PTY reads that return data in one run
MaxKeys == 2           \* keystroke bytes the remote user types in one run
MaxSigint == 2         \* SIGINTs delivered in one run
MaxOutstanding == 3    \* the alarm stops firing at this many open requests
MaxCalls == 5          \* send and recv calls made on the serial transport

\* ------------------------------------------------------ program constants
END == 192
ESC == 219
ESC_END == 221
ESC_ESC == 222
BUFSIZE == 92
READSIZE == 2048
SWAP_DELAY == 100      \* milliseconds

GET_CAPS == <<0, 0>>
GET_KEYS == <<1, 1>>
SEND_PTY == <<2, 2>>
SIG_INT == <<3, 3>>

\* ------------------------------------------------------------ byte strings
Min(a, b) == IF a < b THEN a ELSE b

\* a plausible slip: only the first byte of the prefix is compared
StartsWithFirstByte(s, p) == s # <<>> /\ p # <<>> /\ s[1] = p[1]

\* bytes.startswith(prefix)
StartsWith(s, p) == Len(s) >= Len(p) /\ SubSeq(s, 1, Len(p)) = p

\* s[n:]
DropFirst(s, n) == SubSeq(s, n + 1, Len(s))

\* s[:n]
TakeFirst(s, n) == SubSeq(s, 1, Min(n, Len(s)))

IsPrefix(p, s) == Len(p) <= Len(s) /\ SubSeq(s, 1, Len(p)) = p

\* bytes.replace(old, new) for a one-byte pattern old. Every byte is replaced
\* on its own, so the string is split in halves to keep the recursion shallow;
\* s is bound by a quantifier so that the argument is evaluated only once.
RECURSIVE Replace(_, _, _)
Replace(arg, old, new) ==
    CHOOSE r \in
        {IF s = <<>> THEN <<>>
         ELSE IF Len(s) = 1 THEN (IF s[1] = old THEN new ELSE s)
         ELSE Replace(SubSeq(s, 1, Len(s) \div 2), old, new)
                 \o Replace(SubSeq(s, Len(s) \div 2 + 1, Len(s)), old, new)
            : s \in {arg}} : TRUE

\* ---------------------------------------------------------------- SLIP
\* a plausible slip: END is escaped before ESC, so the ESC it introduces is
\* escaped a second time
SlipEncodeEndFirst(d) ==
    <<END>> \o Replace(Replace(d, END, <<ESC, ESC_END>>), ESC, <<ESC, ESC_ESC>>) \o <<END>>

\* a plausible slip: END is not escaped at all
SlipEncodeNoEnd(d) ==
    <<END>> \o Replace(d, ESC, <<ESC, ESC_ESC>>) \o <<END>>

\* the bytes send_packet hands to send()
SlipEncode(d) ==
    <<END>> \o Replace(Replace(d, ESC, <<ESC, ESC_ESC>>), END, <<ESC, ESC_END>>) \o <<END>>

\* what the escape branch of recv_packet writes for esc_char
Unescape(c) ==
    IF c = ESC_ESC THEN ESC ELSE IF c = ESC_END THEN END ELSE c

\* ------------------------------------------------------------ environment
\* the i-th byte the shell prints; the first ones need SLIP escaping
PtyByte(i) == (i + 190) % 256

\* the i-th byte the remote user types; the first one needs SLIP escaping
KeyByte(i) == IF i = 1 THEN ESC ELSE 96 + i

\* sizes os.readv may return for the 2048-byte buffer
PtyReadSizes == {n \in {0, BUFSIZE + 1} : n <= READSIZE}

SlipAlphabet == {END, ESC, ESC_END, ESC_ESC, 65}

RECURSIVE SeqsUpTo(_, _)
SeqsUpTo(S, n) ==
    IF n = 0 THEN {<<>>}
    ELSE LET shorter == SeqsUpTo(S, n - 1)
         IN  shorter \cup {Append(s, x) : s \in {t \in shorter : Len(t) = n - 1}, x \in S}

VARIABLES
    stack,        \* control stack of frames [fn, pc, sub]
    status,       \* "running" or how the process ended
    enabled,      \* HostController._enabled
    graceful,     \* HostController.graceful
    alarm,        \* TRUE while a signal.alarm timer is pending
    pty,          \* HostController._pty, the outbound queue
    kbd,          \* HostController._kbd, the inbound keystroke queue
    data,         \* serve's local "data" while a chunk is in flight
    received,     \* recv_packet's accumulator
    tx,           \* frames handed to send(), not yet read by the remote
    rx,           \* bytes written by the remote, not yet read by recv()
    nReads,       \* PTY reads that returned data
    ptyRead,      \* history: every byte read from the PTY, in order
    acked,        \* history: payloads of SEND_PTY exchanges that returned
    written,      \* history: bytes the PTY accepted from writev
    keysTyped,    \* keystroke bytes the remote has handed over so far
    keysRecv,     \* history: payloads get_keys returned
    lastBatch,    \* history: <<batch>> of the last get_keys, with nothing but
                  \* send_pty exchanges completed since; <<>> if there is none
    outstanding,  \* history: frames sent minus frames decoded
    lastSent,     \* history: argument of the last send_packet that sent
    nSigint,      \* SIGINTs delivered so far
    intHandled,   \* history: a SIGINT handler finished its graceful branch
    intAbort,     \* history: a SIGINT arrived while graceful was false
    probes,       \* history: recovery probes sent since the last decoded frame
    sigIntSent,   \* history: SIG_INT frames sent
    slipD,        \* SLIP round trip: the byte string under test
    slipOut,      \* SLIP round trip: <<frame>> recv_packet returned, or <<>>
    lastDirection,\* SerialHostController._last_direction
    calls,        \* history: the transport calls made, [dir, slept] each
    ioDone        \* history: transport calls whose write or read has happened

vars == <<stack, status, enabled, graceful, alarm, pty, kbd, data, received,
          tx, rx, nReads, ptyRead, acked, written, keysTyped, keysRecv,
          lastBatch, outstanding, lastSent, nSigint, intHandled, intAbort,
          probes, sigIntSent, slipD, slipOut, lastDirection, calls, ioDone>>

ctl == <<stack, status>>
flags == <<enabled, graceful, alarm>>
queues == <<pty, kbd, data>>
wire == <<tx, rx>>
ptyHist == <<nReads, ptyRead, acked, written>>
keyHist == <<keysTyped, keysRecv, lastBatch>>
sendHist == <<outstanding, lastSent, probes, sigIntSent>>
sigHist == <<nSigint, intHandled, intAbort>>
slip == <<slipD, slipOut>>
serial == <<lastDirection, calls, ioDone>>


\* ------------------------------------------------------------ control stack
Frame(fn, pc, sub) == [fn |-> fn, pc |-> pc, sub |-> sub]
Top == stack[Len(stack)]
Running == status = "running"
At(fn, pc) == Running /\ Top.fn = fn /\ Top.pc = pc
Goto(pc, sub) == stack' = [stack EXCEPT ![Len(stack)] = Frame(Top.fn, pc, sub)]
Push(f) == stack' = Append(stack, f)
Pop == stack' = SubSeq(stack, 1, Len(stack) - 1)

SendPcs == {"probe_send", "gk_send", "sp_send", "final_send", "ptyerr_send", "slip_send"}
RecvPcs == {"probe_recv", "gk_recv", "sp_recv", "slip_recv"}

\* ------------------------------------------------------------------ chunks
\* a plausible slip: the whole queue goes into one request
ChunkAll(d) == d

\* data[: self.BUFSIZE]
Chunk(d) == TakeFirst(d, BUFSIZE)

\* a plausible slip: one byte too many is dropped from the queue
RestOffByOne(d) == DropFirst(d, BUFSIZE + 1)

\* data[self.BUFSIZE :]
Rest(d) == DropFirst(d, BUFSIZE)

\* a plausible slip: the new bytes go to the left end of the deque
ExtendLeft(q, bytes) == bytes \o q

\* deque.extend(bytes)
Extend(q, bytes) == q \o bytes

\* a plausible slip: the PTY error path sends the wrong request
ReqDataWrongTag(f) ==
    CASE f.pc = "probe_send" -> GET_CAPS
      [] f.pc \in {"gk_send", "ptyerr_send"} -> GET_KEYS
      [] f.pc = "sp_send" -> SEND_PTY \o Chunk(data)
      [] f.pc = "final_send" -> SIG_INT
      [] OTHER -> slipD

\* a plausible slip: the "continue" after a batch of keystrokes is missing
AfterKeysNoContinue(keystrokes) == "drain"

\* if keystrokes: ... continue; otherwise on to "while self._pty"
AfterKeys(keystrokes) == IF keystrokes # <<>> THEN "loop" ELSE "drain"

\* the argument of the send_packet call the frame f is in
ReqData(f) ==
    CASE f.pc = "probe_send" -> GET_CAPS
      [] f.pc = "gk_send" -> GET_KEYS
      [] f.pc = "sp_send" -> SEND_PTY \o Chunk(data)
      [] f.pc \in {"final_send", "ptyerr_send"} -> SIG_INT
      [] OTHER -> slipD

\* ---------------------------------------------------------------- watchdog
\* set_watchdog, the test of self._enabled
SetWatchdog ==
    /\ Running
    /\ Top.sub = "check"
    /\ Goto(Top.pc, IF enabled THEN "arm" ELSE "io")
    /\ UNCHANGED <<status, flags, queues, received, wire, ptyHist, keyHist,
                   sendHist, sigHist, slip,
                   serial>>

\* set_watchdog, signal.alarm(self.IO_TIMEOUT)
ArmAlarm ==
    /\ Running
    /\ Top.sub = "arm"
    /\ alarm' = TRUE
    /\ Goto(Top.pc, "io")
    /\ UNCHANGED <<status, enabled, graceful, queues, received, wire, ptyHist,
                   keyHist, sendHist, sigHist, slip,
                   serial>>

\* ------------------------------------------------------------- send_packet
\* where control goes when send_packet returns
AfterSend ==
    CASE Top.fn = "sigalrm" -> Goto("restore", "") /\ UNCHANGED <<status, received>>
      [] Top.pc = "final_send" -> Goto("return", "") /\ status' = "returned"
                                  /\ UNCHANGED received
      [] Top.pc = "ptyerr_send" -> Goto("raise", "") /\ status' = "SystemExit"
                                   /\ UNCHANGED received
      [] Top.pc = "probe_send" -> Goto("probe_recv", "check") /\ received' = <<>>
                                  /\ UNCHANGED status
      [] Top.pc = "gk_send" -> Goto("gk_recv", "check") /\ received' = <<>>
                               /\ UNCHANGED status
      [] Top.pc = "sp_send" -> Goto("sp_recv", "check") /\ received' = <<>>
                               /\ UNCHANGED status
      [] OTHER -> Goto("slip_recv", "check") /\ received' = <<>> /\ UNCHANGED status

\* send_packet, the self.send(END + escaped + END) call
Send ==
    /\ Running
    /\ Top.sub = "io"
    /\ Top.pc \in SendPcs
    /\ LET d == ReqData(Top)
       IN  /\ tx' = Append(tx, SlipEncode(d))
           /\ lastSent' = d
           /\ sigIntSent' = IF d = SIG_INT THEN sigIntSent + 1 ELSE sigIntSent
    /\ outstanding' = outstanding + 1
    /\ probes' = IF Top.fn = "sigalrm" THEN Min(probes + 1, 2) ELSE probes
    /\ AfterSend
    /\ UNCHANGED <<flags, queues, rx, ptyHist, keyHist, sigHist, slip,
                   serial>>

\* ------------------------------------------------------------- recv_packet
\* recv_packet returns frame: the rest of the caller's statement
FrameDone(frame) ==
    /\ outstanding' = outstanding - 1
    /\ probes' = 0
    /\ UNCHANGED <<lastSent, sigIntSent>>
    /\ CASE Top.pc = "probe_recv" ->
              /\ Goto("enable", "")
              /\ lastBatch' = <<>>
              /\ UNCHANGED <<kbd, keysRecv, acked, slipOut>>
         [] Top.pc = "gk_recv" ->
              LET keystrokes == IF StartsWith(frame, GET_KEYS)
                                THEN DropFirst(frame, 2) ELSE <<>>
              IN  /\ keysRecv' = keysRecv \o keystrokes
                  /\ kbd' = Extend(kbd, keystrokes)
                  /\ lastBatch' = <<keystrokes>>
                  /\ Goto(AfterKeys(keystrokes), "")
                  /\ UNCHANGED <<acked, slipOut>>
         [] Top.pc = "sp_recv" ->
              /\ acked' = acked \o Chunk(data)
              /\ Goto("sp_commit", "")
              /\ UNCHANGED <<kbd, keysRecv, lastBatch, slipOut>>
         [] OTHER ->
              /\ slipOut' = <<frame>>
              /\ Goto("slip_done", "")
              /\ UNCHANGED <<kbd, keysRecv, lastBatch, acked>>

\* the process is blocked in self.recv(1): nothing to read yet
Blocked ==
    /\ Running
    /\ Top.sub \in {"io", "esc"}
    /\ Top.pc \in RecvPcs
    /\ rx = <<>>

\* recv_packet, one turn of the loop from char = self.recv(1)
RecvByte ==
    /\ Running
    /\ Top.sub = "io"
    /\ Top.pc \in RecvPcs
    /\ rx # <<>>
    /\ rx' = Tail(rx)
    /\ UNCHANGED status
    /\ IF Head(rx) = END
       THEN IF received # <<>>
            THEN FrameDone(received) /\ UNCHANGED received
            ELSE /\ Goto(Top.pc, "check")
                 /\ UNCHANGED <<received, kbd, keysRecv, lastBatch, acked,
                                slipOut, sendHist>>
       ELSE /\ IF Head(rx) = ESC
               THEN Goto(Top.pc, "esc") /\ UNCHANGED received
               ELSE Goto(Top.pc, "check") /\ received' = Append(received, Head(rx))
            /\ UNCHANGED <<kbd, keysRecv, lastBatch, acked, slipOut, sendHist>>
    /\ UNCHANGED <<flags, pty, data, tx, nReads, ptyRead, written,
                   keysTyped, sigHist, slipD, serial>>

\* recv_packet, esc_char = self.recv(1) and the three-way write
RecvEsc ==
    /\ Running
    /\ Top.sub = "esc"
    /\ rx # <<>>
    /\ rx' = Tail(rx)
    /\ received' = Append(received, Unescape(Head(rx)))
    /\ Goto(Top.pc, "check")
    /\ UNCHANGED <<status, flags, queues, tx, ptyHist, keyHist, sendHist,
                   sigHist, slip,
                   serial>>

\* the remote closes the transport while the bridge waits for a frame:
\* char = self.recv(1) is empty and recv_packet raises SystemExit
RecvEof ==
    /\ Blocked
    /\ Top.sub = "io"
    /\ Top.fn # "slip"
    /\ status' = "SystemExit"
    /\ Goto("eof", "")
    /\ UNCHANGED <<flags, queues, received, wire, ptyHist, keyHist, sendHist,
                   sigHist, slip,
                   serial>>

\* ------------------------------------------------------------------- serve
\* self._enabled = True
Enable ==
    /\ At("serve", "enable")
    /\ enabled' = TRUE
    /\ Goto("loop", "")
    /\ UNCHANGED <<status, graceful, alarm, queues, received, wire, ptyHist,
                   keyHist, sendHist, sigHist, slip,
                   serial>>

\* while self._enabled: ... else fall through to self.signal_int()
LoopTest ==
    /\ At("serve", "loop")
    /\ IF enabled THEN Goto("select", "") ELSE Goto("final_send", "check")
    /\ UNCHANGED <<status, flags, queues, received, wire, ptyHist, keyHist,
                   sendHist, sigHist, slip,
                   serial>>

\* _handle_pty, the EVENT_READ branch: os.readv returned n bytes
PtyAfterRead(n) ==
    Extend(pty, [i \in 1..n |-> PtyByte(Len(ptyRead) + i)])

\* the select() round of serve with the _handle_pty callback it dispatches;
\* mask is the readiness reported, n the result of os.readv and w the result
\* of os.writev, each -1 when the call raises OSError
HandlePty(mask, n, w) ==
    LET reads == mask \in {"R", "RW"}
        writes == mask \in {"W", "RW"} /\ n # -1 /\ kbd # <<>>
        got == IF reads /\ n # -1 THEN n ELSE 0
    IN  /\ pty' = PtyAfterRead(got)
        /\ ptyRead' = ptyRead \o [i \in 1..got |-> PtyByte(Len(ptyRead) + i)]
        /\ nReads' = IF got > 0 THEN nReads + 1 ELSE nReads
        /\ IF reads /\ n = -1
           THEN /\ Goto("ptyerr_send", "check")
                /\ UNCHANGED <<status, kbd, written>>
           ELSE IF ~writes
           THEN /\ Goto("gk_send", "check")
                /\ UNCHANGED <<status, kbd, written>>
           ELSE IF w = -1
           THEN /\ Goto("ptyerr_send", "check")
                /\ UNCHANGED <<status, kbd, written>>
           ELSE /\ written' = written \o SubSeq(kbd, 1, w)
                /\ IF w = Len(kbd)
                   THEN /\ kbd' = <<>>
                        /\ Goto("gk_send", "check")
                        /\ UNCHANGED status
                   ELSE /\ status' = "RuntimeError"
                        /\ Goto("raise", "")
                        /\ UNCHANGED kbd

Select ==
    /\ At("serve", "select")
    /\ \E mask \in {"R", "W", "RW"} :
       \E n \in {k \in PtyReadSizes : k = 0 \/ nReads < MaxPtyReads} \cup {-1} :
       \E w \in (1..Len(kbd)) \cup {-1} :
          /\ mask = "W" => n = 0
          /\ (mask = "R" \/ n = -1 \/ kbd = <<>>) => w = -1
          /\ HandlePty(mask, n, w)
    /\ UNCHANGED <<flags, data, received, wire, acked, keyHist, sendHist,
                   sigHist, slip,
                   serial>>

\* while self._pty: data = bytes(self._pty)
DrainTest ==
    /\ At("serve", "drain")
    /\ IF pty # <<>>
       THEN data' = pty /\ Goto("sp_send", "check")
       ELSE UNCHANGED data /\ Goto("loop", "")
    /\ UNCHANGED <<status, flags, pty, kbd, received, wire, ptyHist, keyHist,
                   sendHist, sigHist, slip,
                   serial>>

\* self._pty.clear(); self._pty.extend(data[self.BUFSIZE :])
Commit ==
    /\ At("serve", "sp_commit")
    /\ pty' = Rest(data)
    /\ Goto("drain", "")
    /\ UNCHANGED <<status, flags, kbd, data, received, wire, ptyHist, keyHist,
                   sendHist, sigHist, slip,
                   serial>>


\* ---------------------------------------------------------- sigint_handler
\* Python runs a handler between two statements of the interrupted code. The
\* handler's test of ctrl.graceful and the assignment under it contain no call,
\* so they run as one step with the delivery.

\* a plausible slip: the handler takes the graceful branch whatever the flag
SigintAlwaysGraceful ==
    /\ Running
    /\ Top.fn # "slip"
    /\ nSigint < MaxSigint
    /\ nSigint' = nSigint + 1
    /\ intAbort' = (intAbort \/ ~graceful)
    /\ graceful' = FALSE
    /\ Push(Frame("sigint", "disable", ""))
    /\ UNCHANGED <<status, enabled, alarm, queues, received, wire, ptyHist,
                   keyHist, sendHist, intHandled, slip,
                   serial>>

\* SIGINT is delivered: if ctrl.graceful: ctrl.graceful = False ... else:
\* raise SystemExit
Sigint ==
    /\ Running
    /\ Top.fn # "slip"
    /\ nSigint < MaxSigint
    /\ nSigint' = nSigint + 1
    /\ intAbort' = (intAbort \/ ~graceful)
    /\ IF graceful
       THEN /\ graceful' = FALSE
            /\ Push(Frame("sigint", "disable", ""))
            /\ UNCHANGED status
       ELSE /\ status' = "SystemExit"
            /\ Push(Frame("sigint", "raise", ""))
            /\ UNCHANGED graceful
    /\ UNCHANGED <<enabled, alarm, queues, received, wire, ptyHist, keyHist,
                   sendHist, intHandled, slip,
                   serial>>

\* disable(): self._enabled = False
Disable ==
    /\ At("sigint", "disable")
    /\ enabled' = FALSE
    /\ Goto("alarm0", "")
    /\ UNCHANGED <<status, graceful, alarm, queues, received, wire, ptyHist,
                   keyHist, sendHist, sigHist, slip,
                   serial>>

\* disable(): signal.alarm(0), and the handler returns
DisableAlarm ==
    /\ At("sigint", "alarm0")
    /\ alarm' = FALSE
    /\ intHandled' = TRUE
    /\ Pop
    /\ UNCHANGED <<status, enabled, graceful, queues, received, wire, ptyHist,
                   keyHist, sendHist, nSigint, intAbort, slip,
                   serial>>

\* --------------------------------------------------------- sigalrm_handler
\* IO_TIMEOUT passes while the bridge is blocked in recv(): the alarm expires
\* and Python calls sigalrm_handler: if ctrl.graceful: ctrl.graceful = False,
\* then the call of ctrl.send_packet(ctrl.GET_CAPS); else: raise SystemError
AlarmFire ==
    /\ Blocked
    /\ alarm
    /\ outstanding < MaxOutstanding
    /\ alarm' = FALSE
    /\ IF graceful
       THEN /\ graceful' = FALSE
            /\ Push(Frame("sigalrm", "probe_send", "check"))
            /\ UNCHANGED status
       ELSE /\ status' = "SystemError"
            /\ Push(Frame("sigalrm", "raise", ""))
            /\ UNCHANGED graceful
    /\ UNCHANGED <<enabled, queues, received, wire, ptyHist, keyHist, sendHist,
                   sigHist, slip,
                   serial>>

\* ctrl.graceful = True, and the handler returns
AlarmRestore ==
    /\ At("sigalrm", "restore")
    /\ graceful' = TRUE
    /\ Pop
    /\ UNCHANGED <<status, enabled, alarm, queues, received, wire, ptyHist,
                   keyHist, sendHist, sigHist, slip,
                   serial>>

\* ------------------------------------------------------------------ remote
\* the banner of the remote's GET_CAPS answer
Banner == <<85>>

\* frames a remote may answer GET_KEYS with that do not carry the GET_KEYS tag:
\* one shorter than a tag, one with another tag and a payload
Mismatch == {<<255>>, <<1, 0, 97>>}

\* the frames the remote may answer the request frame req with; the two tag
\* bytes follow the leading END unescaped
Answers(req) ==
    LET tag == SubSeq(req, 2, 3)
    IN  CASE tag = GET_CAPS -> {GET_CAPS \o Banner}
          [] tag = GET_KEYS ->
               {GET_KEYS \o [i \in 1..k |-> KeyByte(keysTyped + i)] :
                    k \in 0..(MaxKeys - keysTyped)} \cup Mismatch
          [] tag = SEND_PTY -> {SEND_PTY}
          [] OTHER -> {}

\* the remote reads the oldest request and writes its answer (none to SIG_INT).
\* The bridge sees the remote only through recv(), so the answer is placed at
\* the moment the bridge waits for it.
RemoteAnswer ==
    /\ Blocked
    /\ Top.fn # "slip"
    /\ tx # <<>>
    /\ tx' = Tail(tx)
    /\ LET req == Head(tx)
       IN  IF Answers(req) = {}
           THEN UNCHANGED <<rx, keysTyped>>
           ELSE \E resp \in Answers(req) :
                   /\ rx' = rx \o SlipEncode(resp)
                   /\ keysTyped' = IF StartsWith(resp, GET_KEYS)
                                   THEN keysTyped + Len(resp) - 2 ELSE keysTyped
    /\ UNCHANGED <<ctl, flags, queues, received, ptyHist, keysRecv, lastBatch,
                   sendHist, sigHist, slip,
                   serial>>

\* --------------------------------------------------------- specifications
Init ==
    /\ stack = <<Frame("serve", "probe_send", "check")>>
    /\ status = "running"
    /\ enabled = FALSE
    /\ graceful = TRUE
    /\ alarm = FALSE
    /\ pty = <<>> /\ kbd = <<>> /\ data = <<>> /\ received = <<>>
    /\ tx = <<>> /\ rx = <<>>
    /\ nReads = 0 /\ ptyRead = <<>> /\ acked = <<>> /\ written = <<>>
    /\ keysTyped = 0 /\ keysRecv = <<>> /\ lastBatch = <<>>
    /\ outstanding = 0 /\ lastSent = <<>>
    /\ probes = 0 /\ sigIntSent = 0
    /\ nSigint = 0 /\ intHandled = FALSE /\ intAbort = FALSE
    /\ slipD = <<>> /\ slipOut = <<>>
    /\ lastDirection = "UND" /\ calls = <<>> /\ ioDone = 0

Next ==
    \/ SetWatchdog \/ ArmAlarm \/ Send \/ RecvByte \/ RecvEsc \/ RecvEof
    \/ Enable \/ LoopTest \/ Select \/ DrainTest \/ Commit
    \/ Sigint \/ Disable \/ DisableAlarm
    \/ AlarmFire \/ AlarmRestore
    \/ RemoteAnswer

Spec == Init /\ [][Next]_vars


\* the SLIP round trip on its own: send_packet(slipD) on a transport whose
\* other end hands every frame back, then recv_packet
SlipLoopback ==
    /\ At("slip", "slip_recv")
    /\ tx # <<>>
    /\ rx' = rx \o Head(tx)
    /\ tx' = Tail(tx)
    /\ UNCHANGED <<ctl, flags, queues, received, ptyHist, keyHist, sendHist,
                   sigHist, slip,
                   serial>>

SlipInit ==
    /\ stack = <<Frame("slip", "slip_send", "check")>>
    /\ status = "running"
    /\ enabled \in BOOLEAN
    /\ graceful = TRUE
    /\ alarm = FALSE
    /\ pty = <<>> /\ kbd = <<>> /\ data = <<>> /\ received = <<>>
    /\ tx = <<>> /\ rx = <<>>
    /\ nReads = 0 /\ ptyRead = <<>> /\ acked = <<>> /\ written = <<>>
    /\ keysTyped = 0 /\ keysRecv = <<>> /\ lastBatch = <<>>
    /\ outstanding = 0 /\ lastSent = <<>>
    /\ probes = 0 /\ sigIntSent = 0
    /\ nSigint = 0 /\ intHandled = FALSE /\ intAbort = FALSE
    /\ slipD \in SeqsUpTo(SlipAlphabet, MaxLen)
    /\ slipOut = <<>>
    /\ lastDirection = "UND" /\ calls = <<>> /\ ioDone = 0

SlipNext ==
    \/ SetWatchdog \/ ArmAlarm \/ Send \/ SlipLoopback \/ RecvByte \/ RecvEsc

SpecSlip == SlipInit /\ [][SlipNext]_vars

\* ----------------------------------------------------- the serial transport
\* Spec and SpecSlip run the bridge on the socket transport, whose send and
\* recv keep no direction. SpecSerial makes send and recv calls on the serial
\* transport, in any order.

\* a plausible slip: the sleep is taken but _last_direction is not updated
TurnNoUpdate(dir) ==
    /\ calls' = Append(calls, [dir |-> dir,
                               slept |-> SWAP_DELAY # 0 /\ lastDirection # dir])
    /\ UNCHANGED lastDirection

\* if self.SWAP_DELAY and self._last_direction != dir: time.sleep(...);
\* self._last_direction = dir
Turn(dir) ==
    IF SWAP_DELAY # 0 /\ lastDirection # dir
    THEN /\ lastDirection' = dir
         /\ calls' = Append(calls, [dir |-> dir, slept |-> TRUE])
    ELSE /\ UNCHANGED lastDirection
         /\ calls' = Append(calls, [dir |-> dir, slept |-> FALSE])

\* SerialHostController.send is called: the direction test and the sleep
SerialSend ==
    /\ At("serial", "idle")
    /\ Len(calls) < MaxCalls
    /\ Turn("OUT")
    /\ Goto("send_io", "")
    /\ UNCHANGED <<status, flags, queues, received, wire, ptyHist, keyHist,
                   sendHist, sigHist, slip, ioDone>>

\* self._conn.write(data), and send returns
SerialWrite ==
    /\ At("serial", "send_io")
    /\ tx' = Append(tx, <<65>>)
    /\ ioDone' = ioDone + 1
    /\ Goto("idle", "")
    /\ UNCHANGED <<status, flags, queues, received, rx, ptyHist, keyHist,
                   sendHist, sigHist, slip, lastDirection, calls>>

\* SerialHostController.recv is called: the direction test and the sleep
SerialRecv ==
    /\ At("serial", "idle")
    /\ Len(calls) < MaxCalls
    /\ Turn("IN")
    /\ Goto("recv_io", "")
    /\ UNCHANGED <<status, flags, queues, received, wire, ptyHist, keyHist,
                   sendHist, sigHist, slip, ioDone>>

\* return self._conn.read(buffersize), once the line has a byte
SerialRead ==
    /\ At("serial", "recv_io")
    /\ rx # <<>>
    /\ rx' = Tail(rx)
    /\ ioDone' = ioDone + 1
    /\ Goto("idle", "")
    /\ UNCHANGED <<status, flags, queues, received, tx, ptyHist, keyHist,
                   sendHist, sigHist, slip, lastDirection, calls>>

\* the device at the other end of the line writes a byte
SerialPeer ==
    /\ At("serial", "recv_io")
    /\ rx = <<>>
    /\ rx' = <<65>>
    /\ UNCHANGED <<ctl, flags, queues, received, tx, ptyHist, keyHist,
                   sendHist, sigHist, slip, serial>>

SerialInit ==
    /\ stack = <<Frame("serial", "idle", "")>>
    /\ status = "running"
    /\ enabled = FALSE
    /\ graceful = TRUE
    /\ alarm = FALSE
    /\ pty = <<>> /\ kbd = <<>> /\ data = <<>> /\ received = <<>>
    /\ tx = <<>> /\ rx = <<>>
    /\ nReads = 0 /\ ptyRead = <<>> /\ acked = <<>> /\ written = <<>>
    /\ keysTyped = 0 /\ keysRecv = <<>> /\ lastBatch = <<>>
    /\ outstanding = 0 /\ lastSent = <<>>
    /\ probes = 0 /\ sigIntSent = 0
    /\ nSigint = 0 /\ intHandled = FALSE /\ intAbort = FALSE
    /\ slipD = <<>> /\ slipOut = <<>>
    /\ lastDirection = "UND" /\ calls = <<>> /\ ioDone = 0

SerialNext ==
    \/ SerialSend \/ SerialWrite \/ SerialRecv \/ SerialRead \/ SerialPeer

SpecSerial == SerialInit /\ [][SerialNext]_vars

\* A run with what the shutdown claim provides for: one SIGINT, a remote that
\* answers every request well within IO_TIMEOUT, a PTY without errors.
NoPtyError == Running /\ Top.pc # "ptyerr_send"

LiveStep ==
    \/ SetWatchdog \/ ArmAlarm \/ Send \/ RecvByte \/ RecvEsc
    \/ Enable \/ LoopTest \/ (Select /\ NoPtyError') \/ DrainTest \/ Commit
    \/ Disable \/ DisableAlarm

LiveNext ==
    \/ SetWatchdog \/ ArmAlarm \/ Send \/ RecvByte \/ RecvEsc
    \/ Enable \/ LoopTest \/ (Select /\ NoPtyError') \/ DrainTest \/ Commit
    \/ (Sigint /\ nSigint = 0) \/ Disable \/ DisableAlarm
    \/ RemoteAnswer

\* the bridge keeps running (a single thread that is never starved) and the
\* remote answers every request it is sent
LiveSpec == Init /\ [][LiveNext]_vars /\ WF_vars(LiveStep) /\ WF_vars(RemoteAnswer)

\* the exit status of the process: serve returning lets main return (0), a
\* bare "raise SystemExit" exits with 0, an uncaught SystemError or
\* RuntimeError ends the interpreter with 1; -1 while the process runs
ExitStatus ==
    CASE status \in {"returned", "SystemExit"} -> 0
      [] status \in {"SystemError", "RuntimeError"} -> 1
      [] OTHER -> -1

\* ================================================================== claims
Main == stack[1]
Tag(d) == TakeFirst(d, 2)
Sends == Len(tx') > Len(tx)

\* payload bytes of a frame on the wire: its bytes less the two ENDs, the two
\* tag bytes and one ESC for every escaped byte
WirePayloadLen(f) == Len(f) - 4 - Cardinality({i \in 1..Len(f) : f[i] = ESC})

\* C1: the number of request frames sent minus the number of response frames
\* decoded is always 0 or 1 (never two requests outstanding).
C1_Serialized == outstanding \in {0, 1}

\* C2: every SEND_PTY request carries at most BUFSIZE payload bytes after the
\* 2-byte tag.
C2_ChunkBound ==
    /\ Tag(lastSent) = SEND_PTY => Len(lastSent) - 2 <= BUFSIZE
    /\ \A i \in 1..Len(tx) :
          SubSeq(tx[i], 2, 3) = SEND_PTY => WirePayloadLen(tx[i]) <= BUFSIZE

C2_Witness ==
    /\ Tag(lastSent) = SEND_PTY
    /\ Len(lastSent) - 2 = BUFSIZE
    /\ Len(data) > BUFSIZE

\* C3: between chunk exchanges, the payloads of the acknowledged SEND_PTY
\* requests followed by the outbound queue are exactly the bytes read from the
\* PTY so far, in read order.
C3_Delivery == Main.pc # "sp_commit" => acked \o pty = ptyRead

C3_Witness ==
    /\ Main.pc # "sp_commit"
    /\ Len(acked) >= BUFSIZE
    /\ pty # <<>>

WireDrained == Main.pc \in {"slip_recv", "slip_done"} /\ tx = <<>> /\ rx = <<>>

\* recv_packet returns only slipD, and has returned it once the frame is read
RoundTrip ==
    /\ slipOut # <<>> => slipOut = <<slipD>>
    /\ WireDrained => slipOut = <<slipD>>

\* C5 as stated: for every byte string D, the empty one included, recv_packet
\* fed with the bytes of send_packet(D) returns exactly D.
C5_AsStated == RoundTrip

\* C5 amended: for every non-empty byte string D (any mix of END and ESC
\* bytes), recv_packet fed with the bytes of send_packet(D) returns exactly D.
C5_RoundTrip == slipD # <<>> => RoundTrip

C5_Witness ==
    /\ slipOut = <<slipD>>
    /\ \E i \in 1..Len(slipD) : slipD[i] = END
    /\ \E i \in 1..Len(slipD) : slipD[i] = ESC

\* a frame with END at its two ends only and every ESC inside followed by
\* ESC_END or ESC_ESC
WellFramed(f) ==
    /\ Len(f) >= 2
    /\ f[1] = END
    /\ f[Len(f)] = END
    /\ \A i \in 2..(Len(f) - 1) :
          /\ f[i] # END
          /\ f[i] = ESC => i + 1 < Len(f) /\ f[i + 1] \in {ESC_END, ESC_ESC}

\* C6: the bytes send_packet hands to the transport have END at exactly the
\* first and the last position, and every ESC in between is followed by
\* ESC_END or ESC_ESC.
C6_Framing == \A i \in 1..Len(tx) : WellFramed(tx[i])

C6_Witness ==
    /\ tx # <<>>
    /\ \E i \in 1..Len(slipD) : slipD[i] = END
    /\ \E i \in 1..Len(slipD) : slipD[i] = ESC

\* C7: once a watchdog alarm has sent its GET_CAPS probe, no second probe is
\* sent before a response frame has been decoded (a second alarm is fatal).
C7_OneProbe == probes <= 1

\* C8: once the first SIGINT has been handled while graceful was true, serve
\* eventually returns, having sent SIG_INT exactly once, as its last frame.
C8_Terminates ==
    [](intHandled =>
          <>(status = "returned" /\ lastSent = SIG_INT /\ sigIntSent = 1))

\* C9: after the first SIGINT has been handled, no GET_KEYS and no SEND_PTY
\* request is sent any more.
C9_NoNewRequest ==
    [][(intHandled /\ Sends) => Tag(lastSent') \notin {GET_KEYS, SEND_PTY}]_vars

\* C10: a SIGINT delivered while graceful is false ends the process at once:
\* no frame, and no SIG_INT in particular, is sent from then on.
C10_AbortSendsNothing ==
    [][intAbort' => (status' = "SystemExit" /\ ~Sends /\ sigIntSent' = sigIntSent)]_vars

C10_Witness ==
    /\ intAbort
    /\ status = "SystemExit"
    /\ sigIntSent = 0

\* the transport returned zero bytes and recv_packet raised SystemExit
EofExit == status = "SystemExit" /\ Top.pc = "eof"

\* C11: whenever recv returns zero bytes while a frame is being decoded, the
\* bridge has attempted to send one SIG_INT frame by the time it terminates.
C11_EofSendsSigInt == EofExit => sigIntSent = 1

\* os.readv or os.writev raised OSError in _handle_pty
PtyFailed ==
    \/ Main.pc = "ptyerr_send"
    \/ Main.pc = "raise" /\ status = "SystemExit"

\* C12 as stated: whenever the process has ended after an OS error on the PTY,
\* SIG_INT has been sent to the remote exactly once.
C12_AsStated == (PtyFailed /\ ~Running) => sigIntSent = 1

\* C12 amended: after an OS error on the PTY no GET_KEYS and no SEND_PTY is
\* sent, the one frame serve sends is SIG_INT, and it ends the process; the
\* process ends with SIG_INT sent exactly once unless a signal handler ended it
\* before the frame was sent.
C12_PtyErrorShutdown ==
    [][/\ (PtyFailed /\ Sends) => Tag(lastSent') \notin {GET_KEYS, SEND_PTY}
       /\ (PtyFailed /\ Sends /\ Len(stack) = 1) =>
              (lastSent' = SIG_INT /\ status' = "SystemExit")
       /\ PtyFailed' => sigIntSent' <= 1
       /\ (PtyFailed' /\ ~Running' /\ Len(stack') = 1) =>
              (sigIntSent' = 1 /\ lastSent' = SIG_INT)]_vars

C12_Witness ==
    /\ Main.pc = "raise"
    /\ status = "SystemExit"
    /\ Len(stack) = 1
    /\ sigIntSent = 1
    /\ ptyRead # <<>>

\* C13: a short write on the keystroke path is handled as a PTY I/O error: by
\* the time the process has ended on it, SIG_INT has been sent to the remote.
C13_ShortWriteSendsSigInt == status = "RuntimeError" => sigIntSent = 1

\* C14: the process ends with status 0 only after a graceful-signal shutdown
\* (serve returned); transport EOF, a PTY I/O error, a watchdog alarm while
\* graceful is false and a second SIGINT end it with a nonzero status.
C14_ExitStatus == ~Running => (ExitStatus = 0 <=> status = "returned")

\* a signal handler is running
InHandler == Len(stack) > 1

\* C15: no step taken inside a signal handler writes to or reads from the
\* transport or the PTY.
C15_HandlersNoIO ==
    [][InHandler => /\ ~Sends
                    /\ Len(rx') >= Len(rx)
                    /\ written' = written
                    /\ ptyRead' = ptyRead]_vars

\* C19: once the first SIGINT has been handled the alarm is never armed again,
\* and the process does not end in the fatal watchdog timeout.
C19_NoRearm == intHandled => (~alarm /\ status # "SystemError")

\* C20: the frame send_pty consumes is the remote's answer to a SEND_PTY
\* request, and the frame get_keys consumes is an answer to a GET_KEYS request;
\* in particular no GET_KEYS-tagged frame is consumed as an acknowledgement.
C20_Matched ==
    [][/\ (Main.pc = "sp_recv" /\ Main'.pc = "sp_commit") =>
              received = SEND_PTY
       /\ (Main.pc = "gk_recv" /\ Main'.pc \in {"loop", "drain"}) =>
              (Tag(received) = GET_KEYS \/ received \in Mismatch)]_vars

\* the step in which recv_packet hands its frame (received) to get_keys
GkReturns == Main.pc = "gk_recv" /\ Main'.pc \in {"loop", "drain"}

\* C16: when the response to GET_KEYS does not begin with 01 01, get_keys
\* returns an empty batch: the inbound queue is left as it is, the bridge keeps
\* running and the same iteration goes on to drain the outbound queue.
C16_MismatchIsEmpty ==
    [][(GkReturns /\ Tag(received) # GET_KEYS) =>
          /\ kbd' = kbd
          /\ keysRecv' = keysRecv
          /\ status' = "running"
          /\ Main'.pc = "drain"]_vars

C16_Witness ==
    /\ At("serve", "drain")
    /\ lastSent = GET_KEYS
    /\ Len(received) > 2
    /\ Tag(received) # GET_KEYS
    /\ pty # <<>>

\* C18: a SEND_PTY request is sent only when the last get_keys, with nothing
\* but send_pty exchanges since, returned an empty batch; after a non-empty
\* batch no SEND_PTY is sent before the next GET_KEYS exchange.
C18_KeystrokePriority ==
    [][(Sends /\ Tag(lastSent') = SEND_PTY) => lastBatch = <<<<>>>>]_vars

C18_Witness ==
    /\ At("serve", "sp_recv")
    /\ Tag(lastSent) = SEND_PTY
    /\ keysRecv # <<>>
    /\ lastBatch = <<<<>>>>

\* the direction of the call before the i-th one
DirectionBefore(i) == IF i = 1 THEN "UND" ELSE calls[i - 1].dir

\* C17: on the serial transport last_direction is the direction of the last
\* call (UND before the first), a call sleeps SWAP_DELAY exactly when its
\* direction differs from that of the call before it, and the sleep is decided
\* before the call's byte is written or read.
C17_Turnaround ==
    /\ lastDirection = DirectionBefore(Len(calls) + 1)
    /\ \A i \in 1..Len(calls) : calls[i].slept = (calls[i].dir # DirectionBefore(i))
    /\ ioDone = IF Top.pc = "idle" THEN Len(calls) ELSE Len(calls) - 1

C17_Witness ==
    /\ Len(calls) >= 4
    /\ \E i \in 2..Len(calls) : calls[i].slept
    /\ \E i \in 2..Len(calls) : ~calls[i].slept
    /\ lastDirection = "IN"
    /\ ioDone = Len(calls)

====
